---- MODULE Spec2Model ----
(***************************************************************************)
(* Model of sequential_uuids.c: the two generators uuid_sequence_nextval   *)
(* and uuid_time_nextval.  Each call validates its arguments, derives the  *)
(* number of prefix bytes from the block/interval count, reads the         *)
(* sequence or the clock, divides, copies the low bytes of the quotient    *)
(* into the head of a 16-byte buffer, fills the rest from                  *)
(* pg_strong_random and stamps the version-4 / RFC 4122 variant bits.      *)
(*                                                                         *)
(* Values are kept below 2^31, so an int64 is represented by its           *)
(* mathematical value, and the bytes of its two's complement image are     *)
(* computed by floor division.  The byte layout of val in memory, which    *)
(* the code reads through an unsigned char pointer, is the layout of a     *)
(* little-endian host (x86-64, arm64): p[k] is the k-th least significant  *)
(* byte.                                                                   *)
(***************************************************************************)
EXTENDS Integers, Sequences, FiniteSets, TLC

VARIABLES seq, clock, cfg, result, log

vars == <<seq, clock, cfg, result, log>>

(***************************************************************************)
(* Program constants and bounds                                            *)
(***************************************************************************)
UUID_LEN == 16

\* longest run of calls followed under SpecRun
MaxCalls == 260

Bytes == 0..255
Idx == 0..(UUID_LEN - 1)

\* content of a byte of palloc'ed memory nothing has written yet
Uninit == -1

\* argument values tried for block_size / interval_length
Sizes == {-1, 0, 1, 2, 60, 65546}

\* argument values tried for block_count / interval_count
Counts == {-1, 0, 1, 2, 255, 256, 257, 511, 512, 65536, 65537, 16777216, 2147483647}

\* last values of the sequence at which a call is made under Spec
SeqStates == {-301, -2, 0, 255, 4999999, 1999999999}

\* readings of the clock (tv_sec) under Spec
ClockStates == {0, 59, 60, 15360, 1700000000}

\* what a division by zero can do: trap (SIGFPE, reported by the server as
\* an error) or leave some value in val
DivZeroOutcomes ==
    { [trap |-> TRUE, val |-> 0], [trap |-> FALSE, val |-> 0],
      [trap |-> FALSE, val |-> -1], [trap |-> FALSE, val |-> 4660] }

NoDivZero == [trap |-> TRUE, val |-> 0]

\* the generator's byte streams: stream[k] is the k-th byte it hands out
Stream(base, step) == [k \in Idx |-> (base + k * step) % 256]

\* a random source: the bytes it would hand out and how many it can supply
RandomSources ==
    { [bytes |-> Stream(0, 0), avail |-> 16],
      [bytes |-> Stream(255, 0), avail |-> 16],
      [bytes |-> Stream(165, 37), avail |-> 16],
      [bytes |-> Stream(90, 0), avail |-> 13],
      [bytes |-> Stream(255, 0), avail |-> 0] }

RunRandomSources ==
    { [bytes |-> Stream(255, 0), avail |-> 16],
      [bytes |-> Stream(165, 37), avail |-> 16] }

\* fixed arguments of a run under SpecRun
RunConfigs ==
    [mode : {"sequence", "time"}, size : {1, 2, 3}, count : {1, 2, 256, 257, 65536}]

NoCfg == [mode |-> "any", size |-> 0, count |-> 0]

(***************************************************************************)
(* Arithmetic helpers                                                      *)
(***************************************************************************)
RECURSIVE Pow256(_)
Pow256(k) == IF k = 0 THEN 1 ELSE 256 * Pow256(k - 1)

\* C integer division, truncating toward zero (divisor > 0)
CDiv(a, b) == IF a >= 0 THEN a \div b ELSE -((-a) \div b)

\* bitwise and / or of two non-negative integers
RECURSIVE BitAnd(_, _)
BitAnd(a, b) ==
    IF a <= 0 \/ b <= 0 THEN 0
    ELSE (a % 2) * (b % 2) + 2 * BitAnd(a \div 2, b \div 2)

RECURSIVE BitOr(_, _)
BitOr(a, b) ==
    IF a <= 0 THEN b
    ELSE IF b <= 0 THEN a
    ELSE (IF a % 2 = 1 \/ b % 2 = 1 THEN 1 ELSE 0) + 2 * BitOr(a \div 2, b \div 2)

\* p[k] for p = (unsigned char *) &val: the k-th byte of the int64 in memory
ByteOf(val, k) ==
    IF k <= 3 THEN (val \div Pow256(k)) % 256
    ELSE IF val < 0 THEN 255 ELSE 0

(***************************************************************************)
(* The steps of a call                                                     *)
(***************************************************************************)
\* while (block_count > 1) { block_count /= 256; prefix_bytes++; }
RECURSIVE PrefixBytesMutant(_)
PrefixBytesMutant(count) ==
    IF count > 1 THEN 1 + PrefixBytesMutant(CDiv(count, 16)) ELSE 0

RECURSIVE PrefixBytes(_)
PrefixBytes(count) ==
    IF count > 1 THEN 1 + PrefixBytes(CDiv(count, 256)) ELSE 0

\* uuid = palloc(sizeof(pg_uuid_t))
Palloc == [i \in Idx |-> Uninit]

\* for (i = 0; i < prefix_bytes; i++) uuid->data[i] = p[prefix_bytes - 1 - i];
CopyPrefixMutant(buf, val, prefix_bytes) ==
    [i \in Idx |-> IF i < prefix_bytes THEN ByteOf(val, i) ELSE buf[i]]

CopyPrefixShifted(buf, val, prefix_bytes) ==
    [i \in Idx |-> IF i < prefix_bytes
                   THEN ByteOf(val, prefix_bytes - i)
                   ELSE buf[i]]

CopyPrefix(buf, val, prefix_bytes) ==
    [i \in Idx |-> IF i < prefix_bytes
                   THEN ByteOf(val, prefix_bytes - 1 - i)
                   ELSE buf[i]]

\* pg_strong_random(buf + off, len): TRUE iff the source supplied len bytes
StrongRandomOk(rnd, len) == rnd.avail >= len

\* the buffer after pg_strong_random(buf + off, len)
StrongRandomFill(buf, off, len, rnd) ==
    [i \in Idx |-> IF i >= off /\ i < off + len /\ i - off < rnd.avail
                   THEN rnd.bytes[i - off]
                   ELSE buf[i]]

\* first byte and length handed to pg_strong_random
RandomOffset(prefix_bytes) == prefix_bytes

RandomLength(prefix_bytes) == UUID_LEN - prefix_bytes

\* if (!pg_strong_random(...)) ereport(ERROR, ...)
RandomFailedMutant(rnd, len) == FALSE

RandomFailed(rnd, len) == ~StrongRandomOk(rnd, len)

\* if (gettimeofday(&tv, NULL) != 0) elog(ERROR, ...)
ClockFailed(tv_ok) == ~tv_ok

\* how many times the prefix loop and the random fill write each byte
WriteCount(prefix_bytes, off, len) ==
    [i \in Idx |-> (IF i < prefix_bytes THEN 1 ELSE 0)
                   + (IF i >= off /\ i < off + len THEN 1 ELSE 0)]

\* does a write of the prefix loop or of the random fill leave the buffer
OutOfBuffer(prefix_bytes, off, len) ==
    prefix_bytes > UUID_LEN \/ off < 0 \/ len < 0 \/ off + len > UUID_LEN

\* data[6] = (data[6] & 0x0f) | 0x40;  data[8] = (data[8] & 0x3f) | 0x80;
StampMutant(buf) ==
    [buf EXCEPT ![6] = BitOr(buf[6], 64),
                ![8] = BitOr(buf[8], 128)]

Stamp(buf) ==
    [buf EXCEPT ![6] = BitOr(BitAnd(buf[6], 15), 64),
                ![8] = BitOr(BitAnd(buf[8], 63), 128)]

(***************************************************************************)
(* Outcomes of a call, as the caller sees them                             *)
(***************************************************************************)
NoUuid == <<>>
NoVal == -999

NoResult ==
    [mode |-> "none", size |-> 0, count |-> 0, status |-> "none", err |-> "none",
     input |-> NoVal, val |-> NoVal, prefix_bytes |-> 0,
     tv |-> "unused", rng |-> "unused", rnd |-> Palloc, raw |-> Palloc,
     writes |-> [i \in Idx |-> 0], outside |-> FALSE, data |-> NoUuid]

\* ereport(ERROR, ...): the call is abandoned, nothing is returned
Raise(mode, size, count, code) ==
    [NoResult EXCEPT !.mode = mode, !.size = size, !.count = count,
                     !.status = "error", !.err = code]

\* lines 87-117 / 168-198: build the identifier from the quotient val
Assemble(base, val, prefix_bytes, rnd) ==
    LET off == RandomOffset(prefix_bytes)
        len == RandomLength(prefix_bytes)
        withPrefix == CopyPrefix(Palloc, val, prefix_bytes)
        filled == StrongRandomFill(withPrefix, off, len, rnd)
        seen == [base EXCEPT !.val = val, !.prefix_bytes = prefix_bytes,
                             !.rnd = rnd.bytes]
    IN  IF RandomFailed(rnd, len)
        THEN [seen EXCEPT !.status = "error", !.err = "INTERNAL_ERROR",
                          !.rng = "failed"]
        ELSE [seen EXCEPT !.status = "ok",
                          !.rng = IF StrongRandomOk(rnd, len) THEN "ok" ELSE "failed",
                          !.raw = filled,
                          !.writes = WriteCount(prefix_bytes, off, len),
                          !.outside = OutOfBuffer(prefix_bytes, off, len),
                          !.data = Stamp(filled)]

\* uuid_sequence_nextval(relid, block_size, block_count)
SequenceNextval(block_size, block_count, rnd, divzero) ==
    IF block_size < 0
    THEN /\ result' = Raise("sequence", block_size, block_count, "INVALID_PARAMETER_VALUE")
         /\ UNCHANGED seq
    ELSE IF block_count < 0
    THEN /\ result' = Raise("sequence", block_size, block_count, "INVALID_PARAMETER_VALUE")
         /\ UNCHANGED seq
    ELSE LET prefix_bytes == PrefixBytes(block_count)
             next == seq + 1
             base == [NoResult EXCEPT !.mode = "sequence", !.size = block_size,
                                      !.count = block_count, !.input = next]
         IN  /\ seq' = next
             /\ IF block_size = 0
                THEN IF divzero.trap
                     THEN result' = [base EXCEPT !.status = "error",
                                                 !.err = "FLOATING_POINT_EXCEPTION"]
                     ELSE result' = Assemble(base, divzero.val, prefix_bytes, rnd)
                ELSE result' = Assemble(base, CDiv(next, block_size), prefix_bytes, rnd)

\* uuid_time_nextval(interval_length, interval_count)
TimeNextval(interval_length, interval_count, tv_ok, rnd) ==
    IF interval_length < 1
    THEN result' = Raise("time", interval_length, interval_count, "INVALID_PARAMETER_VALUE")
    ELSE IF interval_count < 1
    THEN result' = Raise("time", interval_length, interval_count, "INVALID_PARAMETER_VALUE")
    ELSE IF ClockFailed(tv_ok)
    THEN result' = [Raise("time", interval_length, interval_count, "INTERNAL_ERROR")
                        EXCEPT !.tv = "failed"]
    ELSE LET base == [NoResult EXCEPT !.mode = "time", !.size = interval_length,
                                      !.count = interval_count, !.input = clock,
                                      !.tv = IF tv_ok THEN "ok" ELSE "failed"]
         IN  result' = Assemble(base, CDiv(clock, interval_length),
                                PrefixBytes(interval_count), rnd)

(***************************************************************************)
(* Spec: calls with any arguments, at any state of the sequence and clock  *)
(***************************************************************************)
Init ==
    /\ seq = 0
    /\ clock = 0
    /\ cfg = NoCfg
    /\ result = NoResult
    /\ log = <<>>

\* setval() or other sessions move the sequence
Setval ==
    /\ \E v \in SeqStates : seq' = v
    /\ UNCHANGED <<clock, cfg, result, log>>

\* time passes
ClockSet ==
    /\ \E t \in ClockStates : t > clock /\ clock' = t
    /\ UNCHANGED <<seq, cfg, result, log>>

CallSequence ==
    /\ result = NoResult
    /\ seq \in SeqStates
    /\ \E bs \in Sizes, bc \in Counts, rnd \in RandomSources :
          \E dz \in (IF bs = 0 THEN DivZeroOutcomes ELSE {NoDivZero}) :
             SequenceNextval(bs, bc, rnd, dz)
    /\ UNCHANGED <<clock, cfg, log>>

CallTime ==
    /\ result = NoResult
    /\ \E il \in Sizes, ic \in Counts, ok \in BOOLEAN, rnd \in RandomSources :
          TimeNextval(il, ic, ok, rnd)
    /\ UNCHANGED <<seq, clock, cfg, log>>

\* the caller takes the outcome; the next statement can run
Return ==
    /\ result # NoResult
    /\ result' = NoResult
    /\ UNCHANGED <<seq, clock, cfg, log>>

Next == Setval \/ ClockSet \/ CallSequence \/ CallTime \/ Return

Spec == Init /\ [][Next]_vars

(***************************************************************************)
(* SpecRun: one caller, fixed arguments, a sequence that starts at 1 and   *)
(* a clock that advances second by second; every identifier returned is    *)
(* logged in call order                                                    *)
(***************************************************************************)
\* the prefix of a returned identifier, as a sequence of bytes
PrefixOf(r) == [i \in 1..r.prefix_bytes |-> r.data[i - 1]]

Logged(r) == [input |-> r.input, val |-> r.val, prefix |-> PrefixOf(r)]

InitRun ==
    /\ seq = 0
    /\ clock = 0
    /\ cfg \in RunConfigs
    /\ result = NoResult
    /\ log = <<>>

RunSequence ==
    /\ cfg.mode = "sequence"
    /\ Len(log) < MaxCalls
    /\ \E rnd \in RunRandomSources : SequenceNextval(cfg.size, cfg.count, rnd, NoDivZero)
    /\ log' = IF result'.status = "ok" THEN Append(log, Logged(result')) ELSE log
    /\ UNCHANGED <<clock, cfg>>

RunTime ==
    /\ cfg.mode = "time"
    /\ Len(log) < MaxCalls
    /\ Len(log) = clock
    /\ \E rnd \in RunRandomSources : TimeNextval(cfg.size, cfg.count, TRUE, rnd)
    /\ log' = IF result'.status = "ok" THEN Append(log, Logged(result')) ELSE log
    /\ UNCHANGED <<seq, clock, cfg>>

RunTick ==
    /\ cfg.mode = "time"
    /\ Len(log) = clock + 1
    /\ clock' = clock + 1
    /\ UNCHANGED <<seq, cfg, result, log>>

NextRun == RunSequence \/ RunTime \/ RunTick

SpecRun == InitRun /\ [][NextRun]_vars

(***************************************************************************)
(* Properties                                                              *)
(***************************************************************************)
Returned == result.status = "ok"

\* the j-th base-256 digit of a non-negative x (j <= 3)
Digit(x, j) == (x \div Pow256(j)) % 256

\* x mod 256^k for 0 <= x < 2^31
LowBytes(x, k) == IF k >= 4 THEN x ELSE x % Pow256(k)

\* C1: a call whose divisor argument or bucket-count argument is less than 1
\* (zero included) fails with an invalid-parameter error and returns no
\* identifier, in both modes.
C1_InvalidArgumentsRejected ==
    (result.status # "none" /\ (result.size < 1 \/ result.count < 1))
        => /\ result.status = "error"
           /\ result.err = "INVALID_PARAMETER_VALUE"
           /\ result.data = NoUuid

\* C2: for a non-negative input v, divisor d >= 1 and count n >= 1, the first
\* byte_count(n) bytes of the returned identifier are the big-endian encoding
\* of (v / d) mod 256^byte_count(n); counter value 5000000 with block_size
\* 65546 and block_count 65536 gives bucket 76 and prefix 0x00 0x4C.
C2_PrefixIsBigEndianBucket ==
    (Returned /\ result.input >= 0 /\ result.size >= 1 /\ result.count >= 1)
        => LET k == PrefixBytes(result.count)
               q == LowBytes(CDiv(result.input, result.size), k)
           IN  /\ \A i \in 0..(k - 1) : result.data[i] = Digit(q, k - 1 - i)
               /\ (result.input = 5000000 /\ result.size = 65546 /\ result.count = 65536)
                     => (result.val = 76 /\ result.data[0] = 0 /\ result.data[1] = 76)

C2_Witness ==
    /\ Returned
    /\ result.mode = "sequence"
    /\ result.input = 5000000 /\ result.size = 65546 /\ result.count = 65536
    /\ result.data[1] = 76

\* C3: for every bucket count n >= 1 the prefix width holds n distinct
\* buckets, 256^byte_count(n) >= n; byte_count(1) = 0, byte_count(256) = 1,
\* byte_count(257) = 2.
C3_PrefixWidthHoldsCount ==
    (Returned /\ result.count >= 1)
        => /\ (result.prefix_bytes >= 4 \/ Pow256(result.prefix_bytes) >= result.count)
           /\ (result.count = 1 => result.prefix_bytes = 0)
           /\ (result.count = 256 => result.prefix_bytes = 1)
           /\ (result.count = 257 => result.prefix_bytes = 2)

\* C4: in sequence mode, with a counter that starts at 1 and advances by 1 per
\* call, every prefix, the first one included, is shared by exactly block_size
\* consecutively generated identifiers before the prefix changes.
RECURSIVE RunBack(_, _)
RunBack(i, prefix) ==
    IF i = 0 \/ log[i].prefix # prefix THEN 0 ELSE 1 + RunBack(i - 1, prefix)

C4_EveryPrefixSharedByBlockSize ==
    (cfg.mode = "sequence" /\ Len(log) >= 2
        /\ log[Len(log) - 1].prefix # log[Len(log)].prefix)
        => RunBack(Len(log) - 1, log[Len(log) - 1].prefix) = cfg.size

\* the distinct prefixes returned so far in the run
PrefixesSeen == {log[i].prefix : i \in 1..Len(log)}

IsZeroPrefix(prefix) == \A i \in 1..Len(prefix) : prefix[i] = 0

RECURSIVE PrefixLeqFrom(_, _, _)
PrefixLeqFrom(a, b, i) ==
    IF i > Len(a) THEN TRUE
    ELSE IF a[i] < b[i] THEN TRUE
    ELSE IF a[i] > b[i] THEN FALSE
    ELSE PrefixLeqFrom(a, b, i + 1)

PrefixLeq(a, b) == PrefixLeqFrom(a, b, 1)

\* the wraparound cycle an identifier belongs to: (v / divisor) div 256^k
Cycle(e) == e.val \div Pow256(PrefixBytes(cfg.count))

\* C6: over a run with the same valid arguments whose inputs are non-negative
\* and never decrease, an identifier's prefix is byte-wise not below the
\* prefix of any earlier identifier of the same wraparound cycle.  (Every
\* initial part of a run is itself a run, so comparing the last identifier
\* with every earlier one covers every pair.)
C6_PrefixesNeverDecrease ==
    cfg # NoCfg =>
        \A i \in 1..(Len(log) - 1) :
            LET a == log[i]
                b == log[Len(log)]
            IN  (a.input >= 0 /\ a.input <= b.input /\ Cycle(a) = Cycle(b))
                    => PrefixLeq(a.prefix, b.prefix)

C6_Witness ==
    /\ cfg # NoCfg
    /\ cfg.count = 65536
    /\ Len(log) >= 2
    /\ log[Len(log)].val = 256
    /\ log[Len(log) - 1].prefix = <<0, 255>>
    /\ log[Len(log)].prefix = <<1, 0>>

TimeScenario ==
    /\ Returned
    /\ result.mode = "time"
    /\ result.size = 60 /\ result.count = 65536
    /\ result.input = 1700000000

\* C7 (as stated): with interval_length 60, interval_count 65536 and clock
\* time 1700000000 the bucket index is 28333333 and the two prefix bytes are
\* 0x94 0x15.
C7_ScenarioPrefix9415 ==
    TimeScenario
        => (result.val = 28333333 /\ result.data[0] = 148 /\ result.data[1] = 21)

\* C7 (amended): in that scenario the bucket index is 28333333 and the two
\* prefix bytes, the big-endian encoding of 28333333 mod 65536 = 21781, are
\* 0x55 0x15.
C7_ScenarioPrefix5515 ==
    TimeScenario
        => (result.val = 28333333 /\ result.data[0] = 85 /\ result.data[1] = 21)

C7_Witness == TimeScenario /\ result.prefix_bytes = 2

\* C8: every returned identifier carries the version-4 and RFC 4122 variant
\* bits: (byte 6 AND 0xF0) = 0x40 and (byte 8 AND 0xC0) = 0x80.
C8_VersionAndVariantBits ==
    Returned => /\ BitAnd(result.data[6], 240) = 64
                /\ BitAnd(result.data[8], 192) = 128

C8_Witness ==
    /\ Returned
    /\ result.raw[6] = 255 /\ result.raw[8] = 255
    /\ result.data[6] = 79 /\ result.data[8] = 191

\* C9: if the random source cannot supply the 16 - byte_count suffix bytes, or
\* the clock read fails, the call ends in an error and returns no identifier;
\* a returned identifier has every suffix byte filled from the random source.
C9_FailureReturnsNoIdentifier ==
    /\ (result.rng = "failed" \/ result.tv = "failed")
          => (result.status = "error" /\ result.data = NoUuid)
    /\ Returned
          => /\ result.rng = "ok"
             /\ \A i \in Idx : result.raw[i] \in Bytes /\ result.data[i] \in Bytes

C9_Witness ==
    /\ result.rng = "failed"
    /\ result.rnd[0] = 90
    /\ result.prefix_bytes = 2
    /\ result.status = "error"

\* C10: for every bucket count that passes validation (0 included in sequence
\* mode) byte_count is between 0 and 4; the prefix loop writes bytes
\* [0, byte_count) and the random fill bytes [byte_count, 16), each byte once
\* and none outside the buffer; stamping leaves the prefix bytes alone and
\* changes only the high 4 bits of byte 6 and the high 2 bits of byte 8.
C10_WritesPartitionBuffer ==
    Returned =>
        LET k == result.prefix_bytes
        IN  /\ k \in 0..4
            /\ ~result.outside
            /\ \A i \in Idx : result.writes[i] = 1
            /\ \A i \in Idx :
                  result.raw[i] = IF i < k THEN ByteOf(result.val, k - 1 - i)
                                  ELSE result.rnd[i - k]
            /\ \A i \in Idx \ {6, 8} : result.data[i] = result.raw[i]
            /\ result.data[6] % 16 = result.raw[6] % 16
            /\ result.data[8] % 64 = result.raw[8] % 64

C10_Witness ==
    /\ Returned
    /\ result.mode = "sequence"
    /\ result.count = 2147483647
    /\ result.prefix_bytes = 4
    /\ result.input = 2000000000
    /\ result.size = 1
    /\ result.data[0] = 119

====
